---- MODULE Spec2Model ----
(***************************************************************************)
(* GitHubTool (src/src/tools/github.ts, the full facade at lines 559-946)  *)
(* as a state machine.  One facade instance, one call at a time; a call    *)
(* is cut at its awaits: the action that starts it runs to its first       *)
(* remote request, the action that resumes it consumes the remote's answer *)
(* and runs to the next request or to the return/throw.                    *)
(*                                                                         *)
(* Strings the code builds with template literals are sequences of tokens, *)
(* so that a prefix added by handleError is visible in the value.          *)
(***************************************************************************)
EXTENDS Integers, Sequences, FiniteSets, TLC

VARIABLES
    instance,   \* "none" | "ready": whether a GitHubTool object exists
    octokit,    \* TRUE once the constructor created the remote client
    ctor,       \* outcome of the last constructor run: [status, token]
    kindOf,     \* remote tree: kind of the entry named Names[i] in every directory
    order,      \* remote tree: order in which a listing enumerates its entries
    call,       \* the facade call in progress or just settled: [op, args]
    pc,         \* "idle" | "await" | "settled"
    stack,      \* downloadDirectory's activation records, outermost first
    requests,   \* remote requests issued by the current call, in issue order
    outcome     \* how the call settled: [status, value, error]

vars == <<instance, octokit, ctor, kindOf, order, call, pc, stack,
          requests, outcome>>

---------------------------------------------------------------------------
(* Bounds of the remote tree *)

MaxEntries == 2
MaxDepth == 3

---------------------------------------------------------------------------
(* JavaScript values *)

\* undefined, for an optional string
UNDEF == "<undefined>"

\* error.status absent (GitHubError.status is optional)
NoStatus == 0

\* JS truthiness of an optional string: undefined and "" are falsy
Truthy(s) == s # UNDEF /\ s # ""

\* a || b on optional strings
OrElse(a, b) == IF Truthy(a) THEN a ELSE b

\* new Error(message): no status, no response
NewError(message) == [status |-> NoStatus, rmsg |-> UNDEF, message |-> message]

NoError == [status |-> NoStatus, rmsg |-> UNDEF, message |-> <<>>]

---------------------------------------------------------------------------
(* handleError, lines 921-945 *)

\* handleError without its 403 branch
handleErrorWithout403(error) ==
    IF error.status = 404
      THEN NewError(<<"Resource not found: ", OrElse(error.rmsg, "Not found")>>)
    ELSE IF error.status = 401
      THEN NewError(<<"Authentication failed. Check your GitHub token.">>)
    ELSE IF error.status = 422
      THEN NewError(<<"Invalid request: ", OrElse(error.rmsg, "Unprocessable entity")>>)
    ELSE NewError(<<"GitHub API error: ">> \o error.message)

handleError(error) ==
    IF error.status = 404
      THEN NewError(<<"Resource not found: ", OrElse(error.rmsg, "Not found")>>)
    ELSE IF error.status = 401
      THEN NewError(<<"Authentication failed. Check your GitHub token.">>)
    ELSE IF error.status = 403
      THEN NewError(<<"Access forbidden: ", OrElse(error.rmsg, "Forbidden")>>)
    ELSE IF error.status = 422
      THEN NewError(<<"Invalid request: ", OrElse(error.rmsg, "Unprocessable entity")>>)
    ELSE NewError(<<"GitHub API error: ">> \o error.message)

---------------------------------------------------------------------------
(* The remote: a repository tree and the answers of the hosted API.        *)
(* A path is the sequence of entry indices from the root; the entry with   *)
(* index i is named Names[i] and has kind kindOf[i]; a directory at depth  *)
(* MaxDepth is empty, so every tree is finite.                             *)

Names == <<"a", "b", "c", "d", "e">>

Kinds == {"file", "dir", "symlink", "submodule"}

Paths == UNION {[1..n -> 1..MaxEntries] : n \in 0..MaxDepth}

Root == <<>>

RECURSIVE PathStr(_)
\* the path as the remote spells it: names joined by "/"
PathStr(p) ==
    IF p = <<>> THEN <<>>
    ELSE IF Len(p) = 1 THEN <<Names[p[1]]>>
    ELSE PathStr(SubSeq(p, 1, Len(p) - 1)) \o <<"/", Names[p[Len(p)]]>>

KindAt(p) == IF p = Root THEN "dir" ELSE kindOf[p[Len(p)]]

\* children of a directory, in the order the remote lists them
ChildPaths(p) ==
    IF Len(p) >= MaxDepth THEN <<>>
    ELSE [i \in 1..MaxEntries |-> p \o <<order[i]>>]

\* what the remote stores for a file: "aGk=\n" (base64 of "hi") at odd
\* depth, the plain text "hi" with encoding "none" at even depth
EncodingAt(p) == IF Len(p) % 2 = 1 THEN "base64" ELSE "none"
StoredContent(p) ==
    IF EncodingAt(p) = "base64" THEN <<97, 71, 107, 61, 10>> ELSE <<104, 105>>

ShaAt(p) == <<"sha:">> \o PathStr(p)

\* one element of a listing answer
RemoteEntry(p) ==
    [name |-> Names[p[Len(p)]], path |-> p, type |-> KindAt(p),
     size |-> IF KindAt(p) = "file" THEN 2 ELSE 0, sha |-> ShaAt(p)]

\* the single-object answer for a path that is not a directory
RemoteObject(p) ==
    [name |-> Names[p[Len(p)]], path |-> p, type |-> KindAt(p),
     content |-> StoredContent(p), encoding |-> EncodingAt(p),
     size |-> 2, sha |-> ShaAt(p)]

NoObject ==
    [name |-> "", path |-> <<>>, type |-> "", content |-> <<>>,
     encoding |-> "", size |-> 0, sha |-> <<>>]

\* data of repos.getContent: an array for a directory, an object otherwise
ContentData(p) ==
    IF KindAt(p) = "dir"
      THEN [isArray |-> TRUE,
            items |-> [i \in 1..Len(ChildPaths(p)) |-> RemoteEntry(ChildPaths(p)[i])],
            item |-> NoObject]
      ELSE [isArray |-> FALSE, items |-> <<>>, item |-> RemoteObject(p)]

\* what a failed octokit request throws: a status or none (network failure),
\* a response message that is absent, empty or present, and its own message
Statuses == {404, 401, 403, 422, 500}
RemoteErrors ==
    [status : Statuses \cup {NoStatus},
     rmsg : {UNDEF, "", "remote message"},
     message : {<<"original message">>}]

Ok(data) == [ok |-> TRUE, data |-> data, error |-> NoError]
Fail(data, error) == [ok |-> FALSE, data |-> data, error |-> error]

\* answers to repos.getContent for path p
ContentAnswers(p) ==
    {Ok(ContentData(p))} \cup {Fail(ContentData(p), e) : e \in RemoteErrors}

---------------------------------------------------------------------------
(* How a call ends, and the request log *)

NoValue == <<>>
NoOutcome == [status |-> "none", value |-> NoValue, error |-> NoError]
Returned(v) == [status |-> "returned", value |-> v, error |-> NoError]
Threw(e) == [status |-> "threw", value |-> NoValue, error |-> e]

Owner == "octocat"
Repo == "hello"
Refs == {UNDEF, "main"}

\* a request and what became of it: state is "pending", "ok", "error" (the
\* request threw error) or, for a plain retrieval, the kind of its answer
Request(api, params) ==
    [api |-> api, params |-> params, state |-> "pending", error |-> NoError]

\* this.octokit.rest.repos.getContent({owner, repo, path, ref})
GetContentRequest(path, ref) ==
    Request("repos.getContent",
            [owner |-> Owner, repo |-> Repo, path |-> path, ref |-> ref])

InFlight == {i \in 1..Len(requests) : requests[i].state = "pending"}

\* the request the call is suspended on: the last one issued
Pending == requests[Len(requests)]

Answered(ans) ==
    [requests EXCEPT ![Len(requests)].state = IF ans.ok THEN "ok" ELSE "error",
                     ![Len(requests)].error = ans.error]

\* a call starts: it runs to its first await, which issues req
Start(op, args, req) ==
    /\ instance = "ready"
    /\ pc = "idle"
    /\ call' = [op |-> op, args |-> args]
    /\ requests' = <<req>>
    /\ outcome' = NoOutcome
    /\ pc' = "await"
    /\ UNCHANGED <<instance, octokit, ctor, kindOf, order>>

\* a call with a single request ends with result r on the answer ans
Finish(ans, r) ==
    /\ requests' = Answered(ans)
    /\ outcome' = r
    /\ pc' = "settled"
    /\ UNCHANGED <<instance, octokit, ctor, kindOf, order, call, stack>>

NoCall == [op |-> "none", args |-> <<>>]

\* the caller's await of the facade promise completes: the tool's execute
\* hands the value or the error on, and nothing of the call is left
ReturnToCaller ==
    /\ pc = "settled"
    /\ pc' = "idle"
    /\ call' = NoCall
    /\ requests' = <<>>
    /\ outcome' = NoOutcome
    /\ UNCHANGED <<instance, octokit, ctor, kindOf, order, stack>>

---------------------------------------------------------------------------
(* constructor, lines 562-572 *)

Tokens == {UNDEF, "", "ghp_token"}

\* a check for a missing token only
ConstructorThrowsOnUndefined(token) == token = UNDEF

\* if (!token) throw ...; this.octokit = new Octokit({auth: token})
ConstructorThrows(token) == ~Truthy(token)

Construct(token) ==
    /\ instance = "none"
    /\ IF ConstructorThrows(token)
         THEN /\ ctor' = [status |-> "threw", token |-> token]
              /\ UNCHANGED <<instance, octokit>>
         ELSE /\ ctor' = [status |-> "constructed", token |-> token]
              /\ octokit' = TRUE
              /\ instance' = "ready"
    /\ UNCHANGED <<kindOf, order, call, pc, stack, requests, outcome>>

---------------------------------------------------------------------------
(* Buffer.from(text, 'base64').toString('utf-8'), line 626.  A string is   *)
(* the sequence of its character codes.                                    *)

\* the 6-bit value of a base64 character (standard or URL-safe), else -1
Sextet(c) ==
    IF c \in 65..90 THEN c - 65
    ELSE IF c \in 97..122 THEN c - 71
    ELSE IF c \in 48..57 THEN c + 4
    ELSE IF c = 43 \/ c = 45 THEN 62
    ELSE IF c = 47 \/ c = 95 THEN 63
    ELSE -1

RECURSIVE Sextets(_)
\* the 6-bit values up to the first padding character, other characters skipped
Sextets(text) ==
    IF text = <<>> \/ Head(text) = 61 THEN <<>>
    ELSE IF Sextet(Head(text)) < 0 THEN Sextets(Tail(text))
    ELSE <<Sextet(Head(text))>> \o Sextets(Tail(text))

RECURSIVE Bytes(_)
\* 4 sextets give 3 bytes, 3 give 2, 2 give 1, a lone one gives none
Bytes(sx) ==
    IF Len(sx) < 2 THEN <<>>
    ELSE IF Len(sx) = 2 THEN <<sx[1] * 4 + sx[2] \div 16>>
    ELSE IF Len(sx) = 3
      THEN <<sx[1] * 4 + sx[2] \div 16, (sx[2] % 16) * 16 + sx[3] \div 4>>
    ELSE <<sx[1] * 4 + sx[2] \div 16, (sx[2] % 16) * 16 + sx[3] \div 4,
           (sx[3] % 4) * 64 + sx[4]>> \o Bytes(SubSeq(sx, 5, Len(sx)))

\* utf-8 decoding of single-byte characters; any other byte becomes U+FFFD
Utf8(bytes) == [i \in 1..Len(bytes) |-> IF bytes[i] < 128 THEN bytes[i] ELSE 65533]

\* no decoding at all
Base64DecodeIdentity(text) == text

Base64Decode(text) == Utf8(Bytes(Sextets(text)))

---------------------------------------------------------------------------
(* getFileContent, lines 602-640, and downloadFile, lines 642-649 *)

NotAFileOfDirectory(path) ==
    NewError(<<"Path \"">> \o PathStr(path) \o <<"\" is a directory, not a file">>)
NotAFile(path) ==
    NewError(<<"Path \"">> \o PathStr(path) \o <<"\" is not a file">>)

\* the body of the try block after the await, and the catch
getFileContentResult(path, ans) ==
    IF ~ans.ok THEN Threw(handleError(ans.error))
    ELSE IF ans.data.isArray THEN Threw(handleError(NotAFileOfDirectory(path)))
    ELSE IF ans.data.item.type # "file" THEN Threw(handleError(NotAFile(path)))
    ELSE LET data == ans.data.item IN
         Returned([name |-> data.name,
                   path |-> data.path,
                   content |-> IF data.encoding = "base64"
                                 THEN Base64Decode(data.content)
                                 ELSE data.content,
                   encoding |-> data.encoding,
                   size |-> data.size,
                   sha |-> data.sha])

GetFileContentCall(path, ref) ==
    /\ Start("getFileContent", [path |-> path, ref |-> ref],
             GetContentRequest(path, ref))
    /\ UNCHANGED stack

GetFileContentResume ==
    /\ pc = "await"
    /\ call.op = "getFileContent"
    /\ \E ans \in ContentAnswers(call.args.path) :
         Finish(ans, getFileContentResult(call.args.path, ans))

\* downloadFile only forwards to getFileContent
DownloadFileCall(path, ref) ==
    /\ Start("downloadFile", [path |-> path, ref |-> ref],
             GetContentRequest(path, ref))
    /\ UNCHANGED stack

DownloadFileResume ==
    /\ pc = "await"
    /\ call.op = "downloadFile"
    /\ \E ans \in ContentAnswers(call.args.path) :
         Finish(ans, getFileContentResult(call.args.path, ans))

---------------------------------------------------------------------------
(* getRepositoryContents, lines 651-682 *)

NotADirectory(path) ==
    NewError(<<"Path \"">> \o PathStr(path) \o <<"\" is a file, not a directory">>)

getRepositoryContentsResult(path, ans) ==
    IF ~ans.ok THEN Threw(handleError(ans.error))
    ELSE IF ~ans.data.isArray THEN Threw(handleError(NotADirectory(path)))
    ELSE Returned([i \in 1..Len(ans.data.items) |->
                     LET item == ans.data.items[i] IN
                     [name |-> item.name, path |-> item.path, type |-> item.type,
                      size |-> item.size, sha |-> item.sha]])

GetRepositoryContentsCall(path, ref) ==
    /\ Start("getRepositoryContents", [path |-> path, ref |-> ref],
             GetContentRequest(path, ref))
    /\ UNCHANGED stack

GetRepositoryContentsResume ==
    /\ pc = "await"
    /\ call.op = "getRepositoryContents"
    /\ \E ans \in ContentAnswers(call.args.path) :
         Finish(ans, getRepositoryContentsResult(call.args.path, ans))

---------------------------------------------------------------------------
(* downloadDirectory, lines 684-718.  An activation record holds the       *)
(* locals of one (recursive) invocation: its path, the listing it got, the *)
(* position of the for-loop, and the files collected so far.               *)

Frame(path) ==
    [path |-> path, contents |-> <<>>, i |-> 1, files |-> <<>>, phase |-> "list"]

Suspended(stk, path) ==
    [stack |-> stk, outcome |-> NoOutcome, await |-> TRUE, path |-> path]
Ended(r) ==
    [stack |-> <<>>, outcome |-> r, await |-> FALSE, path |-> <<>>]

RECURSIVE Rethrow(_, _)
\* an error thrown inside n nested activations passes through the catch of
\* each of them: throw this.handleError(error), line 716
Rethrow(e, n) == IF n = 0 THEN e ELSE Rethrow(handleError(e), n - 1)

RECURSIVE LoopWithBug(_, _)
\* the for-loop with one of four slips: "drop" forgets the files of a
\* sub-directory, "links" fetches every entry that is not a directory,
\* "prepend" puts the files of a sub-directory before those already
\* collected, "flat" does not descend into sub-directories
LoopWithBug(stk, bug) ==
    LET n == Len(stk)
        f == stk[n]
    IN  IF f.i > Len(f.contents)
          THEN IF n = 1
                 THEN Ended(Returned(f.files))
                 ELSE LoopWithBug(
                        SubSeq(stk, 1, n - 2) \o
                        <<[stk[n - 1] EXCEPT
                             !.files = IF bug = "drop" THEN @
                                       ELSE IF bug = "prepend" THEN f.files \o @
                                       ELSE @ \o f.files,
                             !.i = @ + 1,
                             !.phase = "loop"]>>,
                        bug)
          ELSE LET item == f.contents[f.i] IN
               IF item.type = "file" \/ (bug = "links" /\ item.type # "dir")
                 THEN Suspended([stk EXCEPT ![n].phase = "file"], item.path)
               ELSE IF item.type = "dir" /\ bug # "flat"
                 THEN Suspended(Append([stk EXCEPT ![n].phase = "dir"],
                                       Frame(item.path)),
                                item.path)
               ELSE LoopWithBug([stk EXCEPT ![n].i = @ + 1], bug)

LoopDropsNested(stk) == LoopWithBug(stk, "drop")
LoopFetchesLinks(stk) == LoopWithBug(stk, "links")
LoopPrepends(stk) == LoopWithBug(stk, "prepend")
LoopStaysFlat(stk) == LoopWithBug(stk, "flat")

RECURSIVE Loop(_)
\* the for-loop of the innermost activation, run to the next await or to
\* the return of the outermost activation (lines 694-714)
Loop(stk) ==
    LET n == Len(stk)
        f == stk[n]
    IN  IF f.i > Len(f.contents)
          THEN IF n = 1
                 THEN Ended(Returned(f.files))
                 ELSE \* files.push(...dirFiles) in the caller, line 710
                      Loop(SubSeq(stk, 1, n - 2) \o
                           <<[stk[n - 1] EXCEPT !.files = @ \o f.files,
                                                !.i = @ + 1,
                                                !.phase = "loop"]>>)
          ELSE LET item == f.contents[f.i] IN
               IF item.type = "file"
                 THEN Suspended([stk EXCEPT ![n].phase = "file"], item.path)
               ELSE IF item.type = "dir"
                 THEN Suspended(Append([stk EXCEPT ![n].phase = "dir"],
                                       Frame(item.path)),
                                item.path)
               ELSE Loop([stk EXCEPT ![n].i = @ + 1])

\* a catch that skips the failing entry and goes on with the loop
AbortSkipsEntry(stk, e) ==
    IF stk[Len(stk)].phase = "list"
      THEN Loop([stk EXCEPT ![Len(stk)].phase = "loop"])
      ELSE Loop([stk EXCEPT ![Len(stk)].i = @ + 1, ![Len(stk)].phase = "loop"])

\* a nested call threw e: every enclosing activation rethrows (lines 715-717)
Abort(stk, e) == Ended(Threw(Rethrow(e, Len(stk))))

\* the innermost activation gets the answer it awaits
downloadDirectoryResume(stk, ans) ==
    LET n == Len(stk)
        f == stk[n]
    IN  IF f.phase = "list"
          THEN LET r == getRepositoryContentsResult(f.path, ans) IN
               IF r.status = "threw"
                 THEN Abort(stk, r.error)
                 ELSE Loop([stk EXCEPT ![n].contents = r.value, ![n].phase = "loop"])
          ELSE LET r == getFileContentResult(f.contents[f.i].path, ans) IN
               IF r.status = "threw"
                 THEN Abort(stk, r.error)
                 ELSE Loop([stk EXCEPT ![n].files = Append(@, r.value),
                                       ![n].i = @ + 1,
                                       ![n].phase = "loop"])

\* paths a caller passes: the root (the default) or an entry of the root
StartPaths == {p \in Paths : Len(p) <= 1}

DownloadDirectoryCall(path, ref) ==
    /\ Start("downloadDirectory", [path |-> path, ref |-> ref],
             GetContentRequest(path, ref))
    /\ stack' = <<Frame(path)>>

DownloadDirectoryResume ==
    /\ pc = "await"
    /\ call.op = "downloadDirectory"
    /\ \E ans \in ContentAnswers(Pending.params.path) :
         LET s == downloadDirectoryResume(stack, ans) IN
         /\ stack' = s.stack
         /\ requests' = IF s.await
                          THEN Append(Answered(ans),
                                      GetContentRequest(s.path, call.args.ref))
                          ELSE Answered(ans)
         /\ outcome' = s.outcome
         /\ pc' = IF s.await THEN "await" ELSE "settled"
    /\ UNCHANGED <<instance, octokit, ctor, kindOf, order, call>>

---------------------------------------------------------------------------
(* Answers of the remote to the other requests *)

\* an optional number that is absent
NoNumber == -1

\* a || b on optional numbers: undefined and 0 are falsy
OrElseNum(a, b) == IF a = NoNumber \/ a = 0 THEN b ELSE a

Answers(dataset, blank) ==
    {Ok(d) : d \in dataset} \cup {Fail(blank, e) : e \in RemoteErrors}

\* a repository as the remote describes it
RemoteRepository(owner, repo) ==
    [id |-> 1, name |-> repo, full_name |-> <<owner, "/", repo>>,
     description |-> UNDEF, private |-> FALSE,
     html_url |-> <<"https://github.com/", owner, "/", repo>>,
     clone_url |-> <<"https://github.com/", owner, "/", repo, ".git">>,
     default_branch |-> "main", language |-> "TypeScript",
     stargazers_count |-> 3, forks_count |-> 1, size |-> 42,
     created_at |-> "2024-01-01T00:00:00Z", updated_at |-> "2024-06-01T00:00:00Z"]

\* what GET /repos/{owner}/{repo} can answer with: the repository as named,
\* or, the request having been redirected, the repository under the name it
\* was renamed to
RepositoryAnswers(owner, repo) ==
    {RemoteRepository(owner, repo), RemoteRepository(owner, repo \o "-world")}

\* a descriptor whose full_name is the short name
RepositoryOfShortName(data) == [data EXCEPT !.full_name = <<data.name>>]

\* Repository, the fields getRepository and searchRepositories copy
RepositoryOf(data) ==
    [id |-> data.id, name |-> data.name, full_name |-> data.full_name,
     description |-> data.description, private |-> data.private,
     html_url |-> data.html_url, clone_url |-> data.clone_url,
     default_branch |-> data.default_branch, language |-> data.language,
     stargazers_count |-> data.stargazers_count,
     forks_count |-> data.forks_count, size |-> data.size,
     created_at |-> data.created_at, updated_at |-> data.updated_at]

RemoteCodeItem(owner, repo, path) ==
    [name |-> Names[path[Len(path)]], path |-> path, sha |-> ShaAt(path),
     url |-> <<"https://api.github.com/">> \o PathStr(path),
     html_url |-> <<"https://github.com/">> \o PathStr(path),
     repository |-> RemoteRepository(owner, repo), score |-> 1]

\* a commit of repos.listCommits: author and committer may be missing, and
\* so may each of their fields
Person(present, name, email, date) ==
    [present |-> present, name |-> name, email |-> email, date |-> date]
RemoteCommit(sha, author, committer) ==
    [sha |-> sha, message |-> "message of " \o sha, author |-> author,
     committer |-> committer,
     url |-> "https://api.github.com/commits/" \o sha,
     html_url |-> "https://github.com/commit/" \o sha]
RemoteHistories ==
    {<<>>,
     <<RemoteCommit("c1", Person(TRUE, "Ann", "ann@example.com", "2024-01-01"),
                          Person(TRUE, "Bob", "", UNDEF)),
       RemoteCommit("c2", Person(FALSE, UNDEF, UNDEF, UNDEF),
                          Person(TRUE, UNDEF, "web@example.com", "2024-01-02"))>>}

---------------------------------------------------------------------------
(* getRepository, lines 574-600 *)

getRepositoryResult(ans) ==
    IF ~ans.ok THEN Threw(handleError(ans.error))
    ELSE Returned(RepositoryOf(ans.data))

GetRepositoryCall(owner, repo) ==
    /\ Start("getRepository", [owner |-> owner, repo |-> repo],
             Request("repos.get", [owner |-> owner, repo |-> repo]))
    /\ UNCHANGED stack

GetRepositoryResume ==
    /\ pc = "await"
    /\ call.op = "getRepository"
    /\ \E ans \in Answers(RepositoryAnswers(call.args.owner, call.args.repo),
                          RemoteRepository("", "")) :
         Finish(ans, getRepositoryResult(ans))

---------------------------------------------------------------------------
(* searchRepositories, lines 720-752 *)

SearchOptions ==
    [per_page : {NoNumber, 0, 50}, page : {NoNumber, 0, 2},
     sort : {UNDEF, "stars"}, order : {UNDEF, "asc"}]

Queries == {<<"needle">>}

\* a request that invents a sort order when the caller gave none
searchRepositoriesRequestDefaultSort(query, options) ==
    Request("search.repos",
            [q |-> query,
             per_page |-> OrElseNum(options.per_page, 30),
             page |-> OrElseNum(options.page, 1),
             sort |-> OrElse(options.sort, "stars"),
             order |-> OrElse(options.order, "desc")])

searchRepositoriesRequest(query, options) ==
    Request("search.repos",
            [q |-> query,
             per_page |-> OrElseNum(options.per_page, 30),
             page |-> OrElseNum(options.page, 1),
             sort |-> options.sort,
             order |-> options.order])

searchRepositoriesResult(ans) ==
    IF ~ans.ok THEN Threw(handleError(ans.error))
    ELSE Returned([i \in 1..Len(ans.data) |-> RepositoryOf(ans.data[i])])

SearchRepositoriesCall(query, options) ==
    /\ Start("searchRepositories", [query |-> query, options |-> options],
             searchRepositoriesRequest(query, options))
    /\ UNCHANGED stack

SearchRepositoriesResume ==
    /\ pc = "await"
    /\ call.op = "searchRepositories"
    /\ \E ans \in Answers({<<>>, <<RemoteRepository("octocat", "hello"),
                                   RemoteRepository("acme", "needle")>>}, <<>>) :
         Finish(ans, searchRepositoriesResult(ans))

---------------------------------------------------------------------------
(* searchCode, lines 754-789 *)

OptionalOwners == {UNDEF, "", Owner}
OptionalRepos == {UNDEF, "", Repo}

\* the two branches in the other order
searchQueryOwnerFirst(query, owner, repo) ==
    IF Truthy(owner) THEN query \o <<" user:", owner>>
    ELSE IF Truthy(owner) /\ Truthy(repo) THEN query \o <<" repo:", owner, "/", repo>>
    ELSE query

\* a repo given without an owner still qualifies the query
searchQueryRepoAlone(query, owner, repo) ==
    IF Truthy(owner) /\ Truthy(repo) THEN query \o <<" repo:", owner, "/", repo>>
    ELSE IF Truthy(owner) THEN query \o <<" user:", owner>>
    ELSE IF Truthy(repo) THEN query \o <<" repo:", repo>>
    ELSE query

\* lines 760-765
searchQuery(query, owner, repo) ==
    IF Truthy(owner) /\ Truthy(repo) THEN query \o <<" repo:", owner, "/", repo>>
    ELSE IF Truthy(owner) THEN query \o <<" user:", owner>>
    ELSE query

searchCodeRequest(query, owner, repo) ==
    Request("search.code", [q |-> searchQuery(query, owner, repo), per_page |-> 30])

searchCodeResult(ans) ==
    IF ~ans.ok THEN Threw(handleError(ans.error))
    ELSE Returned([i \in 1..Len(ans.data) |->
                     LET item == ans.data[i] IN
                     [name |-> item.name, path |-> item.path, sha |-> item.sha,
                      url |-> item.url, html_url |-> item.html_url,
                      repository |-> [id |-> item.repository.id,
                                      name |-> item.repository.name,
                                      full_name |-> item.repository.full_name,
                                      html_url |-> item.repository.html_url],
                      score |-> item.score]])

SearchCodeCall(query, owner, repo) ==
    /\ Start("searchCode", [query |-> query, owner |-> owner, repo |-> repo],
             searchCodeRequest(query, owner, repo))
    /\ UNCHANGED stack

SearchCodeResume ==
    /\ pc = "await"
    /\ call.op = "searchCode"
    /\ \E ans \in Answers({<<>>, <<RemoteCodeItem(Owner, Repo, <<1>>)>>}, <<>>) :
         Finish(ans, searchCodeResult(ans))

---------------------------------------------------------------------------
(* getRepositoryArchive, lines 791-817 *)

Formats == {UNDEF, "zipball", "tarball"}
OptionalRefs == {UNDEF, "", "main"}

\* format: 'tarball' | 'zipball' = 'zipball'
FormatOrDefault(format) == IF format = UNDEF THEN "zipball" ELSE format

downloadArchiveRequest(owner, repo, format, ref) ==
    Request("repos.downloadArchive",
            [owner |-> owner, repo |-> repo,
             archive_format |-> FormatOrDefault(format),
             ref |-> OrElse(ref, "HEAD")])

\* a handle that carries the caller's ref as given, not the one requested
getRepositoryArchiveResultRawRef(repo, format, ref, ans) ==
    IF ~ans.ok THEN Threw(handleError(ans.error))
    ELSE Returned([downloadUrl |-> ans.data,
                   filename |-> <<repo, "-", OrElse(ref, "HEAD"), ".",
                                  IF FormatOrDefault(format) = "zipball"
                                    THEN "zip" ELSE "tar.gz">>,
                   ref |-> ref,
                   format |-> FormatOrDefault(format)])

getRepositoryArchiveResult(repo, format, ref, ans) ==
    IF ~ans.ok THEN Threw(handleError(ans.error))
    ELSE Returned([downloadUrl |-> ans.data,
                   filename |-> <<repo, "-", OrElse(ref, "HEAD"), ".",
                                  IF FormatOrDefault(format) = "zipball"
                                    THEN "zip" ELSE "tar.gz">>,
                   ref |-> OrElse(ref, "HEAD"),
                   format |-> FormatOrDefault(format)])

ArchiveUrl == "https://codeload.github.com/archive"

GetRepositoryArchiveCall(format, ref) ==
    /\ Start("getRepositoryArchive", [format |-> format, ref |-> ref],
             downloadArchiveRequest(Owner, Repo, format, ref))
    /\ UNCHANGED stack

GetRepositoryArchiveResume ==
    /\ pc = "await"
    /\ call.op = "getRepositoryArchive"
    /\ \E ans \in Answers({ArchiveUrl}, "") :
         Finish(ans, getRepositoryArchiveResult(Repo, call.args.format,
                                                call.args.ref, ans))

---------------------------------------------------------------------------
(* downloadRepositoryArchive, lines 819-839 *)

\* what fetch(url) and response.arrayBuffer() can do: the retrieval answers
\* with a success status and a body, answers with a non-success status,
\* rejects (no answer at all), or the body cannot be read
FetchAnswers ==
    {[kind |-> "ok", statusText |-> "OK", bytes |-> <<80, 75, 3, 4>>],
     [kind |-> "not ok", statusText |-> "Not Found", bytes |-> <<>>],
     [kind |-> "not ok", statusText |-> "", bytes |-> <<>>],
     [kind |-> "rejected", statusText |-> "", bytes |-> <<>>],
     [kind |-> "body failed", statusText |-> "OK", bytes |-> <<>>]}

DownloadNotOk(statusText) == NewError(<<"Failed to download archive: ", statusText>>)

\* a catch that swallows the failure of the resolution and retrieves anyway
downloadRepositoryArchiveResolvedAnyway(archive) ==
    [outcome |-> NoOutcome, await |-> TRUE,
     url |-> IF archive.status = "threw" THEN "" ELSE archive.value.downloadUrl]

\* after the await of getRepositoryArchive (line 826): its error is caught
\* by line 836; otherwise fetch(archive.downloadUrl) is issued
downloadRepositoryArchiveResolved(archive) ==
    IF archive.status = "threw"
      THEN [outcome |-> Threw(handleError(archive.error)), await |-> FALSE, url |-> ""]
      ELSE [outcome |-> NoOutcome, await |-> TRUE, url |-> archive.value.downloadUrl]

\* after the await of fetch (lines 829-838)
downloadRepositoryArchiveFetched(f) ==
    IF f.kind = "rejected" THEN Threw(handleError(NewError(<<"fetch failed">>)))
    ELSE IF f.kind = "not ok" THEN Threw(handleError(DownloadNotOk(f.statusText)))
    ELSE IF f.kind = "body failed"
      THEN Threw(handleError(NewError(<<"body stream failed">>)))
    ELSE Returned(f.bytes)

DownloadRepositoryArchiveCall(format, ref) ==
    /\ Start("downloadRepositoryArchive", [format |-> format, ref |-> ref],
             downloadArchiveRequest(Owner, Repo, format, ref))
    /\ UNCHANGED stack

DownloadRepositoryArchiveResolve ==
    /\ pc = "await"
    /\ call.op = "downloadRepositoryArchive"
    /\ Pending.api = "repos.downloadArchive"
    /\ \E ans \in Answers({ArchiveUrl}, "") :
         LET s == downloadRepositoryArchiveResolved(
                     getRepositoryArchiveResult(Repo, call.args.format,
                                                call.args.ref, ans)) IN
         /\ requests' = IF s.await
                          THEN Append(Answered(ans), Request("fetch", [url |-> s.url]))
                          ELSE Answered(ans)
         /\ outcome' = s.outcome
         /\ pc' = IF s.await THEN "await" ELSE "settled"
    /\ UNCHANGED <<instance, octokit, ctor, kindOf, order, call, stack>>

DownloadRepositoryArchiveFetch ==
    /\ pc = "await"
    /\ call.op = "downloadRepositoryArchive"
    /\ Pending.api = "fetch"
    /\ \E f \in FetchAnswers :
         /\ requests' = [requests EXCEPT ![Len(requests)].state = f.kind]
         /\ outcome' = downloadRepositoryArchiveFetched(f)
         /\ pc' = "settled"
    /\ UNCHANGED <<instance, octokit, ctor, kindOf, order, call, stack>>

---------------------------------------------------------------------------
(* getFileHistory, lines 841-875 *)

HistoryOptions == [per_page : {NoNumber, 50}, page : {NoNumber, 2}]

listCommitsRequest(path, options) ==
    Request("repos.listCommits",
            [owner |-> Owner, repo |-> Repo, path |-> path,
             per_page |-> OrElseNum(options.per_page, 30),
             page |-> OrElseNum(options.page, 1)])

\* the field as the remote gave it, missing or not
FieldAsGiven(person, field) == person[field]

\* commit.commit.author?.name || ''
FieldOrEmpty(person, field) ==
    IF person.present THEN OrElse(person[field], "") ELSE ""

getFileHistoryResult(ans) ==
    IF ~ans.ok THEN Threw(handleError(ans.error))
    ELSE Returned([i \in 1..Len(ans.data) |->
                     LET commit == ans.data[i] IN
                     [sha |-> commit.sha,
                      message |-> commit.message,
                      author |-> [name |-> FieldOrEmpty(commit.author, "name"),
                                  email |-> FieldOrEmpty(commit.author, "email"),
                                  date |-> FieldOrEmpty(commit.author, "date")],
                      committer |-> [name |-> FieldOrEmpty(commit.committer, "name"),
                                     email |-> FieldOrEmpty(commit.committer, "email"),
                                     date |-> FieldOrEmpty(commit.committer, "date")],
                      url |-> commit.url,
                      html_url |-> commit.html_url]])

GetFileHistoryCall(path, options) ==
    /\ Start("getFileHistory", [path |-> path, options |-> options],
             listCommitsRequest(path, options))
    /\ UNCHANGED stack

GetFileHistoryResume ==
    /\ pc = "await"
    /\ call.op = "getFileHistory"
    /\ \E ans \in Answers(RemoteHistories, <<>>) :
         Finish(ans, getFileHistoryResult(ans))

---------------------------------------------------------------------------
(* getCommitDiff, lines 877-896, and compareCommits, lines 898-919 *)

\* return data as unknown as string
\* the remote's error thrown on as it came
diffResultUnhandled(ans) ==
    IF ~ans.ok THEN Threw(ans.error) ELSE Returned(ans.data)

diffResult(ans) ==
    IF ~ans.ok THEN Threw(handleError(ans.error)) ELSE Returned(ans.data)

GetCommitDiffCall(ref) ==
    /\ Start("getCommitDiff", [ref |-> ref],
             Request("repos.getCommit",
                     [owner |-> Owner, repo |-> Repo, ref |-> ref,
                      mediaType |-> "diff"]))
    /\ UNCHANGED stack

GetCommitDiffResume ==
    /\ pc = "await"
    /\ call.op = "getCommitDiff"
    /\ \E ans \in Answers({"diff --git a/a b/a"}, "") :
         Finish(ans, diffResult(ans))

CompareCommitsCall(base, head) ==
    /\ Start("compareCommits", [base |-> base, head |-> head],
             Request("repos.compareCommits",
                     [owner |-> Owner, repo |-> Repo, base |-> base,
                      head |-> head, mediaType |-> "diff"]))
    /\ UNCHANGED stack

CompareCommitsResume ==
    /\ pc = "await"
    /\ call.op = "compareCommits"
    /\ \E ans \in Answers({"diff --git a/a b/a"}, "") :
         Finish(ans, diffResult(ans))

---------------------------------------------------------------------------
(* The specification *)

Orders ==
    {f \in [1..MaxEntries -> 1..MaxEntries] :
        \A i, j \in 1..MaxEntries : f[i] = f[j] => i = j}

Init ==
    /\ instance = "none"
    /\ octokit = FALSE
    /\ ctor = [status |-> "none", token |-> UNDEF]
    /\ kindOf \in [1..MaxEntries -> Kinds]
    /\ order \in Orders
    /\ call = NoCall
    /\ pc = "idle"
    /\ stack = <<>>
    /\ requests = <<>>
    /\ outcome = NoOutcome

Next ==
    \/ \E token \in Tokens : Construct(token)
    \/ \E path \in StartPaths, ref \in Refs : GetFileContentCall(path, ref)
    \/ GetFileContentResume
    \/ \E path \in StartPaths, ref \in Refs : DownloadFileCall(path, ref)
    \/ DownloadFileResume
    \/ \E path \in StartPaths, ref \in Refs : GetRepositoryContentsCall(path, ref)
    \/ GetRepositoryContentsResume
    \/ \E path \in StartPaths, ref \in Refs : DownloadDirectoryCall(path, ref)
    \/ DownloadDirectoryResume
    \/ GetRepositoryCall(Owner, Repo)
    \/ GetRepositoryResume
    \/ \E query \in Queries, options \in SearchOptions :
          SearchRepositoriesCall(query, options)
    \/ SearchRepositoriesResume
    \/ \E query \in Queries, owner \in OptionalOwners, repo \in OptionalRepos :
          SearchCodeCall(query, owner, repo)
    \/ SearchCodeResume
    \/ \E format \in Formats, ref \in OptionalRefs :
          GetRepositoryArchiveCall(format, ref)
    \/ GetRepositoryArchiveResume
    \/ \E format \in Formats, ref \in OptionalRefs :
          DownloadRepositoryArchiveCall(format, ref)
    \/ DownloadRepositoryArchiveResolve
    \/ DownloadRepositoryArchiveFetch
    \/ \E options \in HistoryOptions : GetFileHistoryCall(<<1>>, options)
    \/ GetFileHistoryResume
    \/ GetCommitDiffCall("main")
    \/ GetCommitDiffResume
    \/ CompareCommitsCall("main", "dev")
    \/ CompareCommitsResume
    \/ ReturnToCaller

Spec == Init /\ [][Next]_vars

\* every request of a traversal is answered: the promise awaited at line 691,
\* 696 or 704 settles, and the suspended call is resumed
FairSpec == Spec /\ WF_vars(DownloadDirectoryResume)

---------------------------------------------------------------------------
(* Concurrent calls on one instance.  The instance holds one field, the    *)
(* client (line 560); everything else a call uses is a parameter or a      *)
(* local of its own invocation (contents and files, lines 691-692).  In    *)
(* this specification call, pc, stack, requests and outcome hold one value *)
(* per call slot, and the steps of the slots interleave freely.            *)

MaxCalls == 2
Slots == 1..MaxCalls

\* the errors the remote answers with here: one with a status, one without
ConcurrentErrors ==
    {e \in RemoteErrors : e.rmsg = "remote message" /\ e.status \in {404, NoStatus}}

ConcurrentAnswers(p) ==
    {Ok(ContentData(p))} \cup {Fail(ContentData(p), e) : e \in ConcurrentErrors}

\* activation records kept in one place for all calls in flight
ResumedShared(s, stk) ==
    [t \in Slots |->
       IF t = s \/ (stack[t] # <<>> /\ stk # <<>>) THEN stk ELSE stack[t]]

\* the call in slot s goes on with the activation records stk: its own
Resumed(s, stk) == [stack EXCEPT ![s] = stk]

\* what a suspended call does with the answer to its pending request
Step(c, stk, ans) ==
    IF c.op = "downloadDirectory" THEN downloadDirectoryResume(stk, ans)
    ELSE IF c.op = "getFileContent"
      THEN Ended(getFileContentResult(c.args.path, ans))
    ELSE Ended(getRepositoryContentsResult(c.args.path, ans))

\* a call starts in a free slot and runs to its first request
ConcurrentStart(s, op, path, stk) ==
    /\ pc[s] = "idle"
    /\ call' = [call EXCEPT ![s] = [op |-> op, args |-> [path |-> path, ref |-> UNDEF]]]
    /\ requests' = [requests EXCEPT ![s] = <<GetContentRequest(path, UNDEF)>>]
    /\ outcome' = [outcome EXCEPT ![s] = NoOutcome]
    /\ pc' = [pc EXCEPT ![s] = "await"]
    /\ stack' = Resumed(s, stk)
    /\ UNCHANGED <<instance, octokit, ctor, kindOf, order>>

ConcurrentGetFileContentCall(s, path) ==
    ConcurrentStart(s, "getFileContent", path, <<>>)
ConcurrentGetRepositoryContentsCall(s, path) ==
    ConcurrentStart(s, "getRepositoryContents", path, <<>>)
ConcurrentDownloadDirectoryCall(s, path) ==
    ConcurrentStart(s, "downloadDirectory", path, <<Frame(path)>>)

\* the remote answers the pending request of slot s and the call runs on
ConcurrentResume(s) ==
    /\ pc[s] = "await"
    /\ LET n == Len(requests[s]) IN
       \E ans \in ConcurrentAnswers(requests[s][n].params.path) :
         LET r == Step(call[s], stack[s], ans)
             answered == [requests[s] EXCEPT
                            ![n].state = IF ans.ok THEN "ok" ELSE "error",
                            ![n].error = ans.error]
         IN /\ stack' = Resumed(s, r.stack)
            /\ requests' = [requests EXCEPT ![s] =
                              IF r.await
                                THEN Append(answered, GetContentRequest(r.path, UNDEF))
                                ELSE answered]
            /\ outcome' = [outcome EXCEPT ![s] = r.outcome]
            /\ pc' = [pc EXCEPT ![s] = IF r.await THEN "await" ELSE "settled"]
    /\ UNCHANGED <<instance, octokit, ctor, kindOf, order, call>>

\* the caller of slot s takes the value or the error
ConcurrentReturn(s) ==
    /\ pc[s] = "settled"
    /\ pc' = [pc EXCEPT ![s] = "idle"]
    /\ call' = [call EXCEPT ![s] = NoCall]
    /\ requests' = [requests EXCEPT ![s] = <<>>]
    /\ outcome' = [outcome EXCEPT ![s] = NoOutcome]
    /\ UNCHANGED <<instance, octokit, ctor, kindOf, order, stack>>

InitConcurrent ==
    /\ instance = "ready"
    /\ octokit = TRUE
    /\ ctor = [status |-> "constructed", token |-> "ghp_token"]
    /\ kindOf \in [1..MaxEntries -> Kinds]
    /\ order \in Orders
    /\ call = [s \in Slots |-> NoCall]
    /\ pc = [s \in Slots |-> "idle"]
    /\ stack = [s \in Slots |-> <<>>]
    /\ requests = [s \in Slots |-> <<>>]
    /\ outcome = [s \in Slots |-> NoOutcome]

NextConcurrent ==
    \/ \E s \in Slots, path \in StartPaths : ConcurrentGetFileContentCall(s, path)
    \/ \E s \in Slots, path \in StartPaths : ConcurrentGetRepositoryContentsCall(s, path)
    \/ \E s \in Slots, path \in StartPaths : ConcurrentDownloadDirectoryCall(s, path)
    \/ \E s \in Slots : ConcurrentResume(s)
    \/ \E s \in Slots : ConcurrentReturn(s)

SpecConcurrent == InitConcurrent /\ [][NextConcurrent]_vars

---------------------------------------------------------------------------
(* The error taxonomy: the kind of a surfaced error, read off its message  *)

KindOfMessage(m) ==
    IF m = <<>> THEN "none"
    ELSE IF Head(m) = "Resource not found: " THEN "NotFound"
    ELSE IF Head(m) = "Authentication failed. Check your GitHub token."
      THEN "AuthenticationFailed"
    ELSE IF Head(m) = "Access forbidden: " THEN "Forbidden"
    ELSE IF Head(m) = "Invalid request: " THEN "InvalidRequest"
    ELSE IF Head(m) = "GitHub API error: " THEN "RemoteError"
    ELSE IF Head(m) = "Path \"" THEN "InvalidTarget"
    ELSE IF Head(m) = "Failed to download archive: " THEN "DownloadFailed"
    ELSE "other"

SurfacedKind == KindOfMessage(outcome.error.message)

SingleRequestOps ==
    {"getRepository", "getFileContent", "getRepositoryContents",
     "searchRepositories", "searchCode", "getRepositoryArchive",
     "getFileHistory", "getCommitDiff", "compareCommits"}

\* the call has settled and its only request failed remotely
SingleRequestFailed ==
    /\ pc = "settled"
    /\ call.op \in SingleRequestOps
    /\ Pending.state = "error"

\* C1: a single-request operation surfaces a remote failure by status: 404,
\* 403 and 422 as NotFound, Forbidden and InvalidRequest with the remote's
\* message text when it has one and a fixed fallback phrase otherwise, 401 as
\* AuthenticationFailed with a fixed message, and any other status or no
\* status as RemoteError with the original error message.
C1_RemoteFailureByStatus ==
    SingleRequestFailed =>
      LET e == Pending.error
          m == outcome.error.message
          text(fallback) == IF e.rmsg \in {UNDEF, ""} THEN fallback ELSE e.rmsg
      IN  /\ outcome.status = "threw"
          /\ Len(requests) = 1
          /\ outcome.error.status = NoStatus
          /\ e.status = 404 =>
               SurfacedKind = "NotFound" /\ Tail(m) = <<text("Not found")>>
          /\ e.status = 403 =>
               SurfacedKind = "Forbidden" /\ Tail(m) = <<text("Forbidden")>>
          /\ e.status = 422 =>
               SurfacedKind = "InvalidRequest"
               /\ Tail(m) = <<text("Unprocessable entity")>>
          /\ e.status = 401 =>
               m = <<"Authentication failed. Check your GitHub token.">>
          /\ e.status \notin {404, 401, 403, 422} =>
               SurfacedKind = "RemoteError" /\ Tail(m) = e.message

C1_Witness ==
    /\ SingleRequestFailed
    /\ call.op = "searchCode"
    /\ Pending.error.status = 403
    /\ Pending.error.rmsg = "remote message"
    /\ outcome.error.message = <<"Access forbidden: ", "remote message">>

\* the remote answered the content request of the settled call, with a
\* listing although a file was asked for, or with one object although a
\* listing was asked for
PathKindMismatch ==
    /\ pc = "settled"
    /\ Pending.state = "ok"
    /\ \/ call.op = "getFileContent" /\ ContentData(call.args.path).isArray
       \/ call.op = "getRepositoryContents" /\ ~ContentData(call.args.path).isArray

\* C2: a path-kind mismatch is surfaced as InvalidTarget, a kind distinct
\* from NotFound, AuthenticationFailed, Forbidden, InvalidRequest and
\* RemoteError, and no result is returned.
C2_MismatchIsInvalidTarget ==
    PathKindMismatch =>
      /\ outcome.status = "threw"
      /\ SurfacedKind = "InvalidTarget"
      /\ SurfacedKind \notin {"NotFound", "AuthenticationFailed", "Forbidden",
                              "InvalidRequest", "RemoteError"}

\* a remote request of the settled downloadDirectory call failed
NestedRequestFailed ==
    /\ pc = "settled"
    /\ call.op = "downloadDirectory"
    /\ \E i \in 1..Len(requests) : requests[i].state = "error"

\* C3: the error downloadDirectory surfaces is the nested failure itself,
\* with the kind and message the failing nested operation produced.
C3_NestedFailureSurfacedUnchanged ==
    NestedRequestFailed =>
      /\ outcome.status = "threw"
      /\ outcome.error = handleError(Pending.error)

\* C4: when a nested request of downloadDirectory fails the whole call
\* fails: nothing is returned, not even the files already fetched, and no
\* request is issued after the failing one.
C4_FailureAbortsTraversal ==
    call.op = "downloadDirectory" =>
      \A i \in 1..Len(requests) :
        requests[i].state = "error" =>
          /\ i = Len(requests)
          /\ pc = "settled"
          /\ stack = <<>>
          /\ outcome.status = "threw"
          /\ outcome.value = NoValue

\* a file had already been fetched when a later request failed
C4_Witness ==
    /\ NestedRequestFailed
    /\ Len(requests) >= 4
    /\ \E i \in 1..Len(requests) :
         /\ requests[i].state = "ok"
         /\ KindAt(requests[i].params.path) = "file"
    /\ outcome.status = "threw"

---------------------------------------------------------------------------
(* What a walk of the remote tree is expected to visit *)

IsPrefix(p, q) == Len(p) <= Len(q) /\ SubSeq(q, 1, Len(p)) = p

\* the files of the tree rooted at directory p: reached through directories only
FilesUnder(p) ==
    {q \in Paths :
       /\ Len(q) > Len(p)
       /\ IsPrefix(p, q)
       /\ KindAt(q) = "file"
       /\ \A k \in (Len(p) + 1)..(Len(q) - 1) : KindAt(SubSeq(q, 1, k)) = "dir"}

RECURSIVE Visits(_), VisitsIn(_, _)
\* the paths requested by a depth-first walk of directory p in listing order
Visits(p) == <<p>> \o VisitsIn(ChildPaths(p), 1)
VisitsIn(cs, i) ==
    IF i > Len(cs) THEN <<>>
    ELSE (IF KindAt(cs[i]) = "file" THEN <<cs[i]>>
          ELSE IF KindAt(cs[i]) = "dir" THEN Visits(cs[i])
          ELSE <<>>) \o VisitsIn(cs, i + 1)

IsFilePath(q) == KindAt(q) = "file"

ReturnedPaths == [k \in 1..Len(outcome.value) |-> outcome.value[k].path]

\* downloadDirectory was called on a directory, every request succeeded,
\* and the call has settled
TraversalSucceeded ==
    /\ pc = "settled"
    /\ call.op = "downloadDirectory"
    /\ KindAt(call.args.path) = "dir"
    /\ \A i \in 1..Len(requests) : requests[i].state = "ok"

\* C5: when all requests succeed downloadDirectory returns exactly one
\* FileResource per file of the tree rooted at the path, no path twice, and
\* the set of returned paths does not depend on the order of the listings.
C5_OneResultPerFile ==
    TraversalSucceeded =>
      /\ outcome.status = "returned"
      /\ Len(outcome.value) = Cardinality(FilesUnder(call.args.path))
      /\ \A j, k \in 1..Len(outcome.value) :
           ReturnedPaths[j] = ReturnedPaths[k] => j = k
      /\ {ReturnedPaths[k] : k \in 1..Len(outcome.value)} = FilesUnder(call.args.path)

\* three files on three levels, listed in the reverse of the index order
C5_Witness ==
    /\ TraversalSucceeded
    /\ call.args.path = Root
    /\ order[1] > order[2]
    /\ Len(outcome.value) >= 3
    /\ \E k \in 1..Len(outcome.value) : Len(outcome.value[k].path) = 3

\* C6: a symlink or submodule entry is neither fetched nor recursed into: no
\* request is issued for its path, it adds no FileResource, and the call
\* does not fail because of it.
C6_LinksAreSkipped ==
    call.op = "downloadDirectory" =>
      /\ \A i \in 2..Len(requests) :
           KindAt(requests[i].params.path) \in {"file", "dir"}
      /\ outcome.status = "returned" =>
           \A k \in 1..Len(outcome.value) : KindAt(outcome.value[k].path) = "file"
      /\ TraversalSucceeded => outcome.status = "returned"

\* a directory holding one plain file and one submodule gives one result
C6_Witness ==
    /\ TraversalSucceeded
    /\ call.args.path = Root
    /\ kindOf[1] = "file"
    /\ kindOf[2] = "submodule"
    /\ outcome.status = "returned"
    /\ Len(outcome.value) = 1

\* C7: downloadDirectory walks depth-first in listing order, one request at
\* a time: a request is issued only when all earlier ones have completed,
\* and the result lists the files in the same pre-order.
C7_SequentialPreOrder ==
    /\ Cardinality(InFlight) <= 1
    /\ (call.op = "downloadDirectory" /\ KindAt(call.args.path) = "dir") =>
         LET v == Visits(call.args.path) IN
         /\ Len(requests) <= Len(v)
         /\ \A i \in 1..Len(requests) :
              /\ requests[i].params.path = v[i]
              /\ i < Len(requests) => requests[i].state = "ok"
         /\ outcome.status = "returned" =>
              /\ Len(requests) = Len(v)
              /\ ReturnedPaths = SelectSeq(v, IsFilePath)

\* a file listed after a sub-directory that holds a file
C7_Witness ==
    /\ TraversalSucceeded
    /\ call.args.path = Root
    /\ Len(outcome.value) >= 3
    /\ KindAt(<<order[1]>>) = "dir"
    /\ KindAt(<<order[2]>>) = "file"
    /\ ReturnedPaths[Len(outcome.value)] = <<order[2]>>

\* the location was resolved and the retrieval of it answered with a
\* non-success status
SecondaryRetrievalNotOk ==
    /\ pc = "settled"
    /\ call.op = "downloadRepositoryArchive"
    /\ Len(requests) = 2
    /\ requests[1].state = "ok"
    /\ requests[2].state = "not ok"

\* C8: downloadRepositoryArchive fails with DownloadFailed, a kind distinct
\* from RemoteError and the status-derived kinds, when the secondary
\* retrieval answers with a non-success status; no bytes are returned, and
\* the retrieval is attempted only after getRepositoryArchive succeeded.
C8_SecondaryFailureIsDownloadFailed ==
    /\ SecondaryRetrievalNotOk =>
         /\ outcome.status = "threw"
         /\ SurfacedKind = "DownloadFailed"
         /\ SurfacedKind \notin {"NotFound", "AuthenticationFailed", "Forbidden",
                                 "InvalidRequest", "RemoteError"}
    /\ \A i \in 1..Len(requests) :
         requests[i].api = "fetch" => i = 2 /\ requests[1].state = "ok"

\* C9: the constructor throws on a missing or empty token before the client
\* is created and before any request, so no instance exists to call an
\* operation on; with a non-empty token it succeeds and issues no request.
C9_ConstructorRequiresToken ==
    /\ [](/\ instance = "none" =>
               /\ ~octokit
               /\ call = NoCall
               /\ requests = <<>>
               /\ pc = "idle"
          /\ ctor.status # "none" =>
               (ctor.status = "threw" <=> ctor.token \in {UNDEF, ""})
          /\ ctor.status = "threw" => instance = "none"
          /\ ctor.status = "constructed" => (instance = "ready" /\ octokit))
    /\ [][instance # instance' =>
            /\ ctor'.token \notin {UNDEF, ""}
            /\ instance' = "ready"
            /\ requests' = <<>>
            /\ pc' = "idle"]_vars

C9_Witness ==
    /\ ctor.status = "threw"
    /\ ctor.token = ""
    /\ instance = "none"
    /\ ~octokit

\* C10: searchCode appends the scoping qualifiers after the caller's query:
\* the repository qualifier when owner and repo are both given, the account
\* qualifier when only owner is given, nothing when neither is given.
C10_SearchCodeScoping ==
    (call.op = "searchCode" /\ pc # "idle") =>
      LET q == requests[1].params.q
          a == call.args
      IN  /\ requests[1].api = "search.code"
          /\ (a.owner \notin {UNDEF, ""} /\ a.repo \notin {UNDEF, ""}) =>
               q = a.query \o <<" repo:", a.owner, "/", a.repo>>
          /\ (a.owner \notin {UNDEF, ""} /\ a.repo \in {UNDEF, ""}) =>
               q = a.query \o <<" user:", a.owner>>
          /\ (a.owner \in {UNDEF, ""} /\ a.repo \in {UNDEF, ""}) => q = a.query

C10_Witness ==
    /\ call.op = "searchCode"
    /\ pc = "await"
    /\ call.args.owner = Owner
    /\ call.args.repo = Repo
    /\ requests[1].params.q = <<"needle", " repo:", "octocat", "/", "hello">>


---------------------------------------------------------------------------
(* Single attempt *)

\* a request that got no usable answer
FailedStates == {"error", "rejected", "not ok", "body failed"}

SameRequest(r1, r2) == r1.api = r2.api /\ r1.params = r2.params

\* C11: a call makes a single attempt: no request is issued twice, a failed
\* request is not issued again, and after its first failed request a call
\* issues no further request before it fails.
C11_SingleAttempt ==
    /\ \A i, j \in 1..Len(requests) :
         SameRequest(requests[i], requests[j]) => i = j
    /\ \A i \in 1..Len(requests) :
         requests[i].state \in FailedStates =>
           /\ i = Len(requests)
           /\ pc = "settled"
           /\ outcome.status = "threw"
    /\ call.op \in SingleRequestOps \cup {"downloadFile"} => Len(requests) <= 1
    /\ call.op = "downloadRepositoryArchive" => Len(requests) <= 2

\* the resolution of the archive location failed and nothing was retrieved
C11_Witness ==
    /\ pc = "settled"
    /\ call.op = "downloadRepositoryArchive"
    /\ Len(requests) = 1
    /\ requests[1].state = "error"
    /\ requests[1].error.status = 500
    /\ outcome.status = "threw"


---------------------------------------------------------------------------
(* searchRepositories: the options sent *)

SearchRepositoriesIssued == call.op = "searchRepositories" /\ pc # "idle"

\* C13 as stated: per_page = 30 and page = 1 are sent when the option is
\* unset, the caller's per_page and page are sent unchanged when set, and
\* sort and order are passed through, absent when the caller did not set them.
C13_OptionsSentAsGiven ==
    SearchRepositoriesIssued =>
      LET o == call.args.options
          p == requests[1].params
      IN  /\ p.q = call.args.query
          /\ p.per_page = IF o.per_page = NoNumber THEN 30 ELSE o.per_page
          /\ p.page = IF o.page = NoNumber THEN 1 ELSE o.page
          /\ p.sort = o.sort
          /\ p.order = o.order

\* C13, amended: as above, except that a per_page or page of 0 is treated
\* like an unset one and replaced by the default (30, 1).
C13_OptionsSentUnlessZero ==
    SearchRepositoriesIssued =>
      LET o == call.args.options
          p == requests[1].params
      IN  /\ requests[1].api = "search.repos"
          /\ p.q = call.args.query
          /\ p.per_page = IF o.per_page \in {NoNumber, 0} THEN 30 ELSE o.per_page
          /\ p.page = IF o.page \in {NoNumber, 0} THEN 1 ELSE o.page
          /\ p.sort = o.sort
          /\ p.order = o.order

\* per_page given, page not, no sort and no order
C13_Witness ==
    /\ SearchRepositoriesIssued
    /\ call.args.options = [per_page |-> 50, page |-> NoNumber,
                            sort |-> UNDEF, order |-> UNDEF]
    /\ requests[1].params.per_page = 50
    /\ requests[1].params.page = 1
    /\ requests[1].params.sort = UNDEF


---------------------------------------------------------------------------
(* getRepositoryArchive: the handle *)

ArchiveResolved ==
    /\ pc = "settled"
    /\ call.op = "getRepositoryArchive"
    /\ Pending.state = "ok"

\* C14: getRepositoryArchive issues exactly one request, which resolves the
\* location, and never retrieves the bytes; an omitted ref becomes "HEAD";
\* the ref of the request, the ref of the handle and the ref in the file
\* name are the same value; the handle's format is the requested one and
\* the file name ends in zip for zipball and tar.gz for tarball.
C14_ArchiveHandle ==
    /\ call.op = "getRepositoryArchive" /\ pc # "idle" =>
         /\ Len(requests) = 1
         /\ requests[1].api = "repos.downloadArchive"
         /\ call.args.ref = UNDEF => requests[1].params.ref = "HEAD"
         /\ call.args.ref \notin {UNDEF, ""} =>
              requests[1].params.ref = call.args.ref
         /\ call.args.format # UNDEF =>
              requests[1].params.archive_format = call.args.format
    /\ ArchiveResolved =>
         LET h == outcome.value
             p == requests[1].params
         IN  /\ outcome.status = "returned"
             /\ h.downloadUrl = ArchiveUrl
             /\ h.ref = p.ref
             /\ h.format = p.archive_format
             /\ h.format \in {"zipball", "tarball"}
             /\ h.filename = <<p.repo, "-", p.ref, ".",
                               IF h.format = "zipball" THEN "zip" ELSE "tar.gz">>

\* a tarball with the ref left out
C14_Witness ==
    /\ ArchiveResolved
    /\ call.args = [format |-> "tarball", ref |-> UNDEF]
    /\ outcome.value.ref = "HEAD"
    /\ outcome.value.filename = <<"hello", "-", "HEAD", ".", "tar.gz">>


---------------------------------------------------------------------------
(* getFileHistory: lenient decoding *)

HistoryAnswered ==
    /\ pc = "settled"
    /\ call.op = "getFileHistory"
    /\ Pending.state = "ok"

\* a sub-field that is there is kept, one that is missing reads as ""
Lenient(person, field) ==
    IF person.present /\ person[field] # UNDEF THEN person[field] ELSE ""

LenientPerson(person) ==
    [name |-> Lenient(person, "name"), email |-> Lenient(person, "email"),
     date |-> Lenient(person, "date")]

\* the returned sequence decodes the remote history h
DecodesHistory(h) ==
    /\ Len(outcome.value) = Len(h)
    /\ \A i \in 1..Len(h) :
         /\ outcome.value[i].sha = h[i].sha
         /\ outcome.value[i].message = h[i].message
         /\ outcome.value[i].author = LenientPerson(h[i].author)
         /\ outcome.value[i].committer = LenientPerson(h[i].committer)
         /\ outcome.value[i].url = h[i].url
         /\ outcome.value[i].html_url = h[i].html_url

\* C15: getFileHistory does not fail on a commit that lacks author or
\* committer sub-fields: a missing name, email or date becomes the empty
\* string, present ones are copied, and there is one record per remote
\* commit, in the remote's order.
C15_LenientHistory ==
    HistoryAnswered =>
      /\ outcome.status = "returned"
      /\ \E h \in RemoteHistories : DecodesHistory(h)

\* the second commit has no author at all and a committer without a name
C15_Witness ==
    /\ HistoryAnswered
    /\ Len(outcome.value) = 2
    /\ outcome.value[1].author.name = "Ann"
    /\ outcome.value[2].sha = "c2"
    /\ outcome.value[2].author = [name |-> "", email |-> "", date |-> ""]
    /\ outcome.value[2].committer.name = ""
    /\ outcome.value[2].committer.email = "web@example.com"


---------------------------------------------------------------------------
(* getFileContent: content as plain text *)

\* the base64 character of a 6-bit value
Base64Char(v) ==
    IF v < 26 THEN v + 65
    ELSE IF v < 52 THEN v + 71
    ELSE IF v < 62 THEN v - 4
    ELSE IF v = 62 THEN 43 ELSE 47

RECURSIVE Base64Encode(_)
\* the padded base64 text of a sequence of bytes (RFC 4648)
Base64Encode(b) ==
    IF b = <<>> THEN <<>>
    ELSE IF Len(b) = 1
      THEN <<Base64Char(b[1] \div 4), Base64Char((b[1] % 4) * 16), 61, 61>>
    ELSE IF Len(b) = 2
      THEN <<Base64Char(b[1] \div 4), Base64Char((b[1] % 4) * 16 + b[2] \div 16),
             Base64Char((b[2] % 16) * 4), 61>>
    ELSE <<Base64Char(b[1] \div 4), Base64Char((b[1] % 4) * 16 + b[2] \div 16),
           Base64Char((b[2] % 16) * 4 + b[3] \div 64), Base64Char(b[3] % 64)>>
         \o Base64Encode(SubSeq(b, 4, Len(b)))

\* the remote breaks its base64 text into lines
WithoutNewlines(text) == SelectSeq(text, LAMBDA c : c # 10)

FileAnswered ==
    /\ pc = "settled"
    /\ call.op = "getFileContent"
    /\ Pending.state = "ok"
    /\ KindAt(call.args.path) = "file"

---------------------------------------------------------------------------
(* getRepository: full_name *)

RepositoryAnswered ==
    /\ pc = "settled"
    /\ call.op = "getRepository"
    /\ Pending.state = "ok"

RequestedFullName == <<call.args.owner, "/", call.args.repo>>

\* C17 as stated: whenever the remote request succeeds, getRepository
\* returns a descriptor whose full_name equals owner/name.
C17_FullNameIsRequested ==
    RepositoryAnswered =>
      /\ outcome.status = "returned"
      /\ outcome.value.full_name = RequestedFullName

\* C17: whenever the remote request succeeds, getRepository returns a
\* descriptor whose full_name, name and html_url are those of the repository
\* the remote answered with; the full_name is owner/name when the remote
\* describes the repository under the requested owner and name.
C17_FullNameIsRemotes ==
    RepositoryAnswered =>
      /\ outcome.status = "returned"
      /\ \E d \in RepositoryAnswers(call.args.owner, call.args.repo) :
           /\ outcome.value.full_name = d.full_name
           /\ outcome.value.name = d.name
           /\ outcome.value.html_url = d.html_url
      /\ outcome.value.html_url = <<"https://github.com/">> \o RequestedFullName
           => outcome.value.full_name = RequestedFullName

\* the repository was found under the name asked for
C17_Witness ==
    /\ RepositoryAnswered
    /\ outcome.status = "returned"
    /\ outcome.value.name = call.args.repo
    /\ outcome.value.full_name = RequestedFullName


---------------------------------------------------------------------------
(* Errors leaving the facade *)

FixedForms ==
    {"Resource not found: ", "Authentication failed. Check your GitHub token.",
     "Access forbidden: ", "Invalid request: ", "GitHub API error: "}

\* C18: every error that leaves a facade operation was made by handleError:
\* its message starts with one of the five fixed forms and it carries no
\* status (and no response), so that handleError, given it a second time,
\* takes its last branch and prefixes "GitHub API error: ".
C18_ErrorsComeFromHandleError ==
    outcome.status = "threw" =>
      /\ outcome.error.message # <<>>
      /\ Head(outcome.error.message) \in FixedForms
      /\ outcome.error.status = NoStatus
      /\ outcome.error.rmsg = UNDEF
      /\ handleError(outcome.error).message
           = <<"GitHub API error: ">> \o outcome.error.message

\* a nested call's 404 went through handleError in the nested call and again
\* in the enclosing downloadDirectory
C18_Witness ==
    /\ pc = "settled"
    /\ call.op = "downloadDirectory"
    /\ outcome.status = "threw"
    /\ Len(requests) > 1
    /\ Pending.state = "error"
    /\ Pending.error.status = 404
    /\ Len(outcome.error.message) > 2
    /\ outcome.error.message[1] = "GitHub API error: "
    /\ \E i \in 2..Len(outcome.error.message) :
         outcome.error.message[i] = "Resource not found: "


---------------------------------------------------------------------------
(* searchCode: a repo without an owner *)

RepoWithoutOwner ==
    /\ call.op = "searchCode"
    /\ ~Truthy(call.args.owner)
    /\ Truthy(call.args.repo)

\* C20: searchCode called with a repo but with no owner (absent or "")
\* ignores the repo: the query it submits is the caller's query with nothing
\* appended, and the call fails only if the remote request fails.
C20_RepoWithoutOwnerIgnored ==
    RepoWithoutOwner =>
      /\ Len(requests) = 1
      /\ requests[1].api = "search.code"
      /\ requests[1].params.q = call.args.query
      /\ pc = "settled" =>
           IF Pending.state = "ok" THEN outcome.status = "returned"
           ELSE outcome.status = "threw" /\ Pending.state = "error"

\* owner "" with a repo: the search went out unqualified and returned
C20_Witness ==
    /\ RepoWithoutOwner
    /\ call.args.owner = ""
    /\ pc = "settled"
    /\ outcome.status = "returned"
    /\ requests[1].params.q = <<"needle">>


---------------------------------------------------------------------------
(* downloadDirectory: termination and the requests of a full traversal *)

\* the directories of the tree rooted at directory p, p itself included
DirsUnder(p) ==
    {q \in Paths :
       /\ IsPrefix(p, q)
       /\ \A k \in (Len(p) + 1)..Len(q) : KindAt(SubSeq(q, 1, k)) = "dir"}

RequestsFor(q) == {i \in 1..Len(requests) : requests[i].params.path = q}

OneRequestPerNode ==
    TraversalSucceeded =>
      \A q \in Paths :
        Cardinality(RequestsFor(q)) =
          IF q \in DirsUnder(call.args.path) \cup FilesUnder(call.args.path)
            THEN 1 ELSE 0

Traversing == call.op = "downloadDirectory" /\ pc = "await"

TraversalOver ==
    /\ call.op = "downloadDirectory"
    /\ pc = "settled"
    /\ outcome.status \in {"returned", "threw"}

\* C19: on a finite tree a downloadDirectory call whose requests are all
\* answered eventually returns or fails, and when every request succeeded
\* it has issued one listing request for each directory reached through dir
\* entries (the start path included), one content request for each file
\* entry, and no request for any other path.
C19_TerminatesOneRequestPerNode ==
    /\ []OneRequestPerNode
    /\ Traversing ~> TraversalOver

\* a full walk over three levels: the root, a sub-directory and its own
\* sub-directory were listed and a file on the third level was fetched
C19_Witness ==
    /\ TraversalSucceeded
    /\ call.args.path = Root
    /\ outcome.status = "returned"
    /\ Cardinality(DirsUnder(Root)) >= 3
    /\ \E i \in 1..Len(requests) :
         /\ Len(requests[i].params.path) = 3
         /\ KindAt(requests[i].params.path) = "file"


---------------------------------------------------------------------------
(* Concurrent calls do not interfere *)

\* the answer a request of the log got
AnswerIn(req) ==
    IF req.state = "ok" THEN Ok(ContentData(req.params.path))
    ELSE Fail(ContentData(req.params.path), req.error)

\* marks a log that the call run alone would not have produced
Diverged == Ended(NoOutcome)

RECURSIVE RunAlone(_, _, _, _)
\* the call c run alone from suspension `at`, the remote answering its
\* i-th and later requests as in the log reqs
RunAlone(c, reqs, i, at) ==
    IF i > Len(reqs) THEN at
    ELSE IF ~at.await \/ at.path # reqs[i].params.path THEN Diverged
    ELSE IF reqs[i].state = "pending"
      THEN IF i = Len(reqs) THEN at ELSE Diverged
    ELSE RunAlone(c, reqs, i + 1, Step(c, at.stack, AnswerIn(reqs[i])))

Alone(s) ==
    RunAlone(call[s], requests[s], 1,
             Suspended(IF call[s].op = "downloadDirectory"
                         THEN <<Frame(call[s].args.path)>> ELSE <<>>,
                       call[s].args.path))

\* C12: calls issued concurrently on one instance do not interfere: however
\* the remote round trips of the calls interleave, each call issues the
\* requests, holds the locals and returns the result or error that it has
\* when it runs alone and the remote gives the same answers.
C12_ConcurrentCallsIndependent ==
    \A s \in Slots :
      call[s].op # "none" =>
        /\ (pc[s] = "await") = Alone(s).await
        /\ stack[s] = Alone(s).stack
        /\ pc[s] = "settled" =>
             /\ outcome[s] = Alone(s).outcome
             /\ outcome[s].status \in {"returned", "threw"}

\* two downloadDirectory calls on the root in flight together: one has
\* returned its files while the other, started no later than the first
\* one's last request, is still walking
C12_Witness ==
    /\ call[1].op = "downloadDirectory"
    /\ call[2].op = "downloadDirectory"
    /\ call[1].args.path = Root
    /\ call[2].args.path = Root
    /\ pc[1] = "await"
    /\ Len(requests[1]) >= 2
    /\ pc[2] = "settled"
    /\ outcome[2].status = "returned"
    /\ Len(outcome[2].value) >= 2

====
